---- MODULE Spec2Model ----
(***************************************************************************)
(* A model of the document/property engine of src/document.rs: the entity  *)
(* table, the name index, the shared expression cells, set_property with   *)
(* its dependency linking and cascade build, and the markup loader.        *)
(***************************************************************************)
EXTENDS Integers, Sequences, FiniteSets, TLC

VARIABLES id_counter, root, entities, entity_ids_by_name, cells, source,
          last, entity_stack, frames

vars == <<id_counter, root, entities, entity_ids_by_name, cells, source,
          last, entity_stack, frames>>

(***************************************************************************)
(* Bounds of the model.                                                    *)
(***************************************************************************)
\* new_id is called at most MaxIds times (successful and failing appends)
\* where properties are set, at most MaxTreeIds times where they are not.
MaxIds == 2
MaxTreeIds == 4
\* at most MaxCells expression cells (Rc allocations) are ever made.
MaxCells == 4
\* no dependant list grows beyond MaxDeps entries.
MaxDeps == 2
\* the loader appends at most MaxLoadIds entities.
MaxLoadIds == 2
\* Include nesting depth of the loader.
MaxIncludeDepth == 1
\* at most MaxOpen elements of one stream are open at a time.
MaxOpen == 2

(***************************************************************************)
(* Values                                                                  *)
(***************************************************************************)
\* `-1` used as an EntityId (u64): the "no parent" sentinel.  No identifier
\* handed out by new_id equals it.
NoParent == -1

\* Option<String>: None is <<>>, Some(s) is <<s>>.
None == <<>>
Some(s) == <<s>>

Names == {"a", "b"}
Keys == {"x", "y"}

\* DocError
InvalidParent == "InvalidParent"
BadReference == "BadReference"
NoSuchEntity == "NoSuchEntity"
NoSuchProperty(key) == "NoSuchProperty(" \o key \o ")"
\* not a DocError: the call does not return (a failed unwrap, or the stack
\* exhausted by unbounded recursion).
Panic == "Panic"
StackOverflow == "StackOverflow"
Ok == "Ok"

\* PropRef
PropRef(e, key) == [entity_id |-> e, property_key |-> key]

\* EntityPath
This == [p |-> "This"]
Parent == [p |-> "Parent"]
Named(n) == [p |-> "Named", name |-> n]
Search(path, n) == [p |-> "Search", path |-> path, search |-> n]

\* NamedPropRef
NamedPropRef(path, key) == [entity_path |-> path, property_key |-> key]

\* Pon, the expression value.
Nil == [k |-> "Nil"]
Integer(n) == [k |-> "Integer", v |-> n]
TypedPon(t, d) == [k |-> "TypedPon", type_name |-> t, data |-> d]
DependencyReference(r) == [k |-> "DependencyReference", ref |-> r]
ResolvedDependencyReference(c) == [k |-> "ResolvedDependencyReference", cell |-> c]
Object(hm) == [k |-> "Object", hm |-> hm]
Array(arr) == [k |-> "Array", arr |-> arr]

Ref(path, key) == DependencyReference(NamedPropRef(path, key))

\* A set as a sequence, in an order fixed by CHOOSE (HashMap iteration order
\* is unspecified; the mappings given as input have one entry).
RECURSIVE SetToSeq(_)
SetToSeq(S) ==
    IF S = {} THEN <<>>
    ELSE LET x == CHOOSE y \in S : TRUE IN <<x>> \o SetToSeq(S \ {x})

\* Pon::get_dependency_references: every NamedPropRef embedded in node,
\* enumerated recursively through typed wrappers, mappings and sequences.
RECURSIVE get_dependency_references(_)
RECURSIVE RefsOfSeq(_)
RefsOfSeq(ps) ==
    IF ps = <<>> THEN <<>>
    ELSE get_dependency_references(Head(ps)) \o RefsOfSeq(Tail(ps))
get_dependency_references(node) ==
    CASE node.k = "DependencyReference" -> <<node.ref>>
      [] node.k = "TypedPon" -> get_dependency_references(node.data)
      [] node.k = "Object" ->
            RefsOfSeq([i \in 1..Cardinality(DOMAIN node.hm) |->
                          node.hm[SetToSeq(DOMAIN node.hm)[i]]])
      [] node.k = "Array" -> RefsOfSeq(node.arr)
      [] OTHER -> <<>>

\* What a reader of a Pon sees: a resolved reference stands for the current
\* content of the cell it shares.
RECURSIVE Value(_, _)
Value(cs, node) ==
    CASE node.k = "ResolvedDependencyReference" -> Value(cs, cs[node.cell])
      [] node.k = "TypedPon" -> TypedPon(node.type_name, Value(cs, node.data))
      [] node.k = "Object" -> Object([f \in DOMAIN node.hm |-> Value(cs, node.hm[f])])
      [] node.k = "Array" -> Array([i \in DOMAIN node.arr |-> Value(cs, node.arr[i])])
      [] OTHER -> node

(***************************************************************************)
(* The document.  Operators take and return the document as a record D of  *)
(* the fields id_counter, entities, entity_ids_by_name and cells, where    *)
(* cells is the heap of Rc<RefCell<Pon>> cells: a Property's expression    *)
(* is the index of its cell.                                               *)
(***************************************************************************)
Doc == [id_counter |-> id_counter, entities |-> entities,
        entity_ids_by_name |-> entity_ids_by_name, cells |-> cells]

\* Property
Property(expression, dependants) ==
    [expression |-> expression, dependants |-> dependants]

\* Entity
Entity(id, type_name, name, parent_id) ==
    [id |-> id, type_name |-> type_name, properties |-> <<>>, name |-> name,
     children_ids |-> <<>>, parent_id |-> parent_id]

\* HashMap::insert
Insert(m, key, v) == [x \in DOMAIN m \cup {key} |-> IF x = key THEN v ELSE m[x]]

\* Document::new_id
new_id(D) == [D EXCEPT !.id_counter = D.id_counter + 1]

\* A faulty variant of IndexName, which C10 tells from it: a name already
\* indexed keeps its entity.
IndexNameIfAbsent(index, name, id) ==
    IF name = None \/ name[1] \in DOMAIN index THEN index
    ELSE Insert(index, name[1], id)

\* HashMap::insert of the name into entity_ids_by_name
IndexName(index, name, id) ==
    IF name = None THEN index ELSE Insert(index, name[1], id)

\* A faulty variant of append_entity, which C8 tells from it: the child is
\* put at the front of its parent's child list.
append_entity_front(D, parent_id, type_name, name) ==
    IF parent_id # NoParent /\ parent_id \notin DOMAIN D.entities
    THEN [D |-> new_id(D), res |-> InvalidParent, id |-> 0]
    ELSE [D |-> [new_id(D) EXCEPT
                   !.entity_ids_by_name = IndexName(@, name, D.id_counter + 1),
                   !.entities =
                       Insert(IF parent_id # NoParent
                              THEN [D.entities EXCEPT ![parent_id].children_ids =
                                        <<D.id_counter + 1>> \o @]
                              ELSE D.entities,
                              D.id_counter + 1,
                              Entity(D.id_counter + 1, type_name, name, parent_id))],
          res |-> Ok, id |-> D.id_counter + 1]

\* A faulty variant of append_entity, which C9 tells from it: the name is
\* indexed before the parent is looked up.
append_entity_index_first(D, parent_id, type_name, name) ==
    IF parent_id # NoParent /\ parent_id \notin DOMAIN D.entities
    THEN [D |-> [new_id(D) EXCEPT
                   !.entity_ids_by_name = IndexName(@, name, D.id_counter + 1)],
          res |-> InvalidParent, id |-> 0]
    ELSE [D |-> [new_id(D) EXCEPT
                   !.entity_ids_by_name = IndexName(@, name, D.id_counter + 1),
                   !.entities =
                       Insert(IF parent_id # NoParent
                              THEN [D.entities EXCEPT ![parent_id].children_ids =
                                        Append(@, D.id_counter + 1)]
                              ELSE D.entities,
                              D.id_counter + 1,
                              Entity(D.id_counter + 1, type_name, name, parent_id))],
          res |-> Ok, id |-> D.id_counter + 1]

\* A faulty variant of append_entity, which C16 tells from it: a parent
\* that names no entity is not refused, the entity is inserted under it.
append_entity_orphan(D, parent_id, type_name, name) ==
    [D |-> [new_id(D) EXCEPT
              !.entity_ids_by_name = IndexName(@, name, D.id_counter + 1),
              !.entities =
                  Insert(IF parent_id \in DOMAIN D.entities
                         THEN [D.entities EXCEPT ![parent_id].children_ids =
                                   Append(@, D.id_counter + 1)]
                         ELSE D.entities,
                         D.id_counter + 1,
                         Entity(D.id_counter + 1, type_name, name, parent_id))],
     res |-> Ok, id |-> D.id_counter + 1]

\* Document::append_entity: the document after the call and its result.
append_entity(D, parent_id, type_name, name) ==
    LET D1 == new_id(D)
        id == D1.id_counter
        entity == Entity(id, type_name, name, parent_id)
    IN  IF parent_id # NoParent /\ parent_id \notin DOMAIN D1.entities
        THEN [D |-> D1, res |-> InvalidParent, id |-> 0]
        ELSE LET ents1 ==
                    IF parent_id # NoParent
                    THEN [D1.entities EXCEPT ![parent_id].children_ids =
                                                 Append(@, id)]
                    ELSE D1.entities
             IN [D |-> [D1 EXCEPT
                          !.entity_ids_by_name = IndexName(@, name, id),
                          !.entities = Insert(ents1, id, entity)],
                 res |-> Ok, id |-> id]

\* Document::get_entity_by_name: Option<EntityId>
get_entity_by_name(D, name) ==
    IF name \in DOMAIN D.entity_ids_by_name
    THEN Some(D.entity_ids_by_name[name]) ELSE None

(***************************************************************************)
(* Path resolver.  A result is [ok |-> TRUE, id |-> id] or                 *)
(* [ok |-> FALSE, err |-> DocError].                                       *)
(***************************************************************************)
OkId(id) == [ok |-> TRUE, id |-> id]
Err(e) == [ok |-> FALSE, err |-> e]

\* Document::search_children
RECURSIVE search_children(_, _, _)
RECURSIVE SearchLoop(_, _, _, _)
SearchLoop(D, cs, i, name) ==
    IF i > Len(cs) THEN Err(BadReference)
    ELSE LET r == search_children(D, cs[i], name)
         IN IF r.ok THEN r ELSE SearchLoop(D, cs, i + 1, name)
\* A faulty variant of search_children, which C11 tells from it: the
\* children are searched before the entity's own name is looked at.
search_children_first(D, entity_id, name) ==
    IF entity_id \notin DOMAIN D.entities THEN Err(BadReference)
    ELSE IF SearchLoop(D, D.entities[entity_id].children_ids, 1, name).ok
    THEN SearchLoop(D, D.entities[entity_id].children_ids, 1, name)
    ELSE IF D.entities[entity_id].name = Some(name)
    THEN OkId(D.entities[entity_id].id)
    ELSE Err(BadReference)
search_children(D, entity_id, name) ==
    IF entity_id \notin DOMAIN D.entities THEN Err(BadReference)
    ELSE LET entity == D.entities[entity_id]
         IN IF entity.name = Some(name) THEN OkId(entity.id)
            ELSE SearchLoop(D, entity.children_ids, 1, name)

\* Document::resolve_entity_path
RECURSIVE resolve_entity_path(_, _, _)
\* A faulty variant of resolve_entity_path, which C17 tells from it: Parent
\* on an entity whose parent is the sentinel is refused.
resolve_entity_path_checked(D, start_entity_id, path) ==
    CASE path.p = "This" -> OkId(start_entity_id)
      [] path.p = "Parent" ->
            IF start_entity_id \in DOMAIN D.entities
               /\ D.entities[start_entity_id].parent_id # NoParent
            THEN OkId(D.entities[start_entity_id].parent_id)
            ELSE Err(BadReference)
      [] path.p = "Named" ->
            IF path.name \in DOMAIN D.entity_ids_by_name
            THEN OkId(D.entity_ids_by_name[path.name])
            ELSE Err(BadReference)
      [] path.p = "Search" ->
            LET r == resolve_entity_path(D, start_entity_id, path.path)
            IN IF r.ok THEN search_children(D, r.id, path.search) ELSE r
resolve_entity_path(D, start_entity_id, path) ==
    CASE path.p = "This" -> OkId(start_entity_id)
      [] path.p = "Parent" ->
            IF start_entity_id \in DOMAIN D.entities
            THEN OkId(D.entities[start_entity_id].parent_id)
            ELSE Err(BadReference)
      [] path.p = "Named" ->
            IF path.name \in DOMAIN D.entity_ids_by_name
            THEN OkId(D.entity_ids_by_name[path.name])
            ELSE Err(BadReference)
      [] path.p = "Search" ->
            LET r == resolve_entity_path(D, start_entity_id, path.path)
            IN IF r.ok THEN search_children(D, r.id, path.search) ELSE r

\* Document::resolve_named_prop_ref: [ok, ref] or [ok, err]
resolve_named_prop_ref(D, start_entity_id, named_prop_ref) ==
    LET r == resolve_entity_path(D, start_entity_id, named_prop_ref.entity_path)
    IN IF r.ok
       THEN [ok |-> TRUE, ref |-> PropRef(r.id, named_prop_ref.property_key)]
       ELSE r

\* Document::build_property_node_dependencies: [ok, refs] or [ok, err]
RECURSIVE ResolveAll(_, _, _, _)
ResolveAll(D, entity_id, named_refs, refs) ==
    IF named_refs = <<>> THEN [ok |-> TRUE, refs |-> refs]
    ELSE LET r == resolve_named_prop_ref(D, entity_id, Head(named_refs))
         IN IF r.ok
            THEN ResolveAll(D, entity_id, Tail(named_refs), Append(refs, r.ref))
            ELSE r
build_property_node_dependencies(D, entity_id, node) ==
    ResolveAll(D, entity_id, get_dependency_references(node), <<>>)

(***************************************************************************)
(* set_property                                                            *)
(***************************************************************************)
HasProperty(D, entity_id, key) ==
    /\ entity_id \in DOMAIN D.entities
    /\ key \in DOMAIN D.entities[entity_id].properties

\* Vec::push of the dependant onto the dependants of property dep
push_dependant(D, dep, who) ==
    [D EXCEPT !.entities[dep.entity_id].properties[dep.property_key].dependants
                  = Append(@, who)]

\* A faulty variant of register_dependants, which C21 tells from it: a
\* dependency on an entity there is not is passed over, not refused.
RECURSIVE register_dependants_unchecked(_, _, _)
register_dependants_unchecked(D, dependencies, who) ==
    IF dependencies = <<>> THEN [D |-> D, res |-> Ok]
    ELSE IF HasProperty(D, Head(dependencies).entity_id,
                        Head(dependencies).property_key)
    THEN register_dependants_unchecked(
             push_dependant(D, Head(dependencies), who), Tail(dependencies),
             who)
    ELSE IF Head(dependencies).entity_id \in DOMAIN D.entities
    THEN [D |-> D, res |-> BadReference]
    ELSE register_dependants_unchecked(D, Tail(dependencies), who)

\* The loop of set_property over its resolved dependencies: each dependency
\* must be an existing property of an existing entity, and gets (entity_id,
\* name) pushed onto its dependants; the first that is not returns
\* BadReference, the pushes made before it staying in place.
RECURSIVE register_dependants(_, _, _)
register_dependants(D, dependencies, who) ==
    IF dependencies = <<>> THEN [D |-> D, res |-> Ok]
    ELSE LET dep == Head(dependencies)
         IN IF HasProperty(D, dep.entity_id, dep.property_key)
            THEN register_dependants(push_dependant(D, dep, who),
                                     Tail(dependencies), who)
            ELSE [D |-> D, res |-> BadReference]

\* Rc::new(RefCell::new(pon)): the heap with a new cell, whose index is its
\* length.
new_cell(D, pon) == [D EXCEPT !.cells = Append(@, pon)]

\* Entity::get_or_create_property: the document (with a Nil property made if
\* key was vacant) and the property's cell.
get_or_create_property(D, entity_id, key) ==
    IF key \in DOMAIN D.entities[entity_id].properties
    THEN [D |-> D, cell |-> D.entities[entity_id].properties[key].expression]
    ELSE LET D1 == new_cell(D, Nil)
         IN [D |-> [D1 EXCEPT !.entities[entity_id].properties =
                         Insert(@, key, Property(Len(D1.cells), <<>>))],
             cell |-> Len(D1.cells)]

\* Document::resolve_pon_dependencies: [D, ok |-> TRUE, pon] or
\* [D, ok |-> FALSE, err]; an unwrap of an error inside a mapping or a
\* sequence is err = Panic.
RECURSIVE resolve_pon_dependencies(_, _, _)
RECURSIVE ResolveNodes(_, _, _, _)
ResolveNodes(D, entity_id, nodes, acc) ==
    IF nodes = <<>> THEN [D |-> D, ok |-> TRUE, pons |-> acc]
    ELSE LET r == resolve_pon_dependencies(D, entity_id, Head(nodes))
         IN IF r.ok
            THEN ResolveNodes(r.D, entity_id, Tail(nodes), Append(acc, r.pon))
            ELSE [D |-> r.D, ok |-> FALSE, err |-> Panic]
\* A faulty variant of resolve_pon_dependencies, which C4 tells from it:
\* mappings and sequences are cloned, the references in them left as they
\* are.
resolve_pon_shallow(D, entity_id, node) ==
    CASE node.k = "TypedPon" ->
            LET r == resolve_pon_dependencies(D, entity_id, node.data)
            IN IF r.ok
               THEN [D |-> r.D, ok |-> TRUE,
                     pon |-> TypedPon(node.type_name, r.pon)]
               ELSE r
      [] node.k = "DependencyReference" ->
            LET r == resolve_named_prop_ref(D, entity_id, node.ref)
            IN IF ~r.ok THEN [D |-> D, ok |-> FALSE, err |-> r.err]
               ELSE IF r.ref.entity_id \notin DOMAIN D.entities
               THEN [D |-> D, ok |-> FALSE, err |-> BadReference]
               ELSE LET g == get_or_create_property(D, r.ref.entity_id,
                                                    r.ref.property_key)
                    IN [D |-> g.D, ok |-> TRUE,
                        pon |-> ResolvedDependencyReference(g.cell)]
      [] OTHER -> [D |-> D, ok |-> TRUE, pon |-> node]
resolve_pon_dependencies(D, entity_id, node) ==
    CASE node.k = "TypedPon" ->
            LET r == resolve_pon_dependencies(D, entity_id, node.data)
            IN IF r.ok
               THEN [D |-> r.D, ok |-> TRUE,
                     pon |-> TypedPon(node.type_name, r.pon)]
               ELSE r
      [] node.k = "DependencyReference" ->
            LET r == resolve_named_prop_ref(D, entity_id, node.ref)
            IN IF ~r.ok THEN [D |-> D, ok |-> FALSE, err |-> r.err]
               ELSE IF r.ref.entity_id \notin DOMAIN D.entities
               THEN [D |-> D, ok |-> FALSE, err |-> BadReference]
               ELSE LET g == get_or_create_property(D, r.ref.entity_id,
                                                    r.ref.property_key)
                    IN [D |-> g.D, ok |-> TRUE,
                        pon |-> ResolvedDependencyReference(g.cell)]
      [] node.k = "Object" ->
            LET ks == SetToSeq(DOMAIN node.hm)
                r == ResolveNodes(D, entity_id,
                                  [i \in 1..Len(ks) |-> node.hm[ks[i]]], <<>>)
            IN IF r.ok
               THEN [D |-> r.D, ok |-> TRUE,
                     pon |-> Object([f \in DOMAIN node.hm |->
                                 r.pons[CHOOSE i \in 1..Len(ks) : ks[i] = f]])]
               ELSE r
      [] node.k = "Array" ->
            LET r == ResolveNodes(D, entity_id, node.arr, <<>>)
            IN IF r.ok THEN [D |-> r.D, ok |-> TRUE, pon |-> Array(r.pons)]
               ELSE r
      [] OTHER -> [D |-> D, ok |-> TRUE, pon |-> node]

\* A faulty variant of install_expression, which C3 tells from it: a
\* property that exists keeps its expression.
install_if_vacant(D, entity_id, name, cell) ==
    IF name \in DOMAIN D.entities[entity_id].properties THEN D
    ELSE [D EXCEPT !.entities[entity_id].properties =
                       Insert(@, name, Property(cell, <<>>))]

\* A faulty variant of install_expression, which C12 tells from it: the
\* property is inserted anew, with no dependants, whether it exists or not.
install_anew(D, entity_id, name, cell) ==
    [D EXCEPT !.entities[entity_id].properties =
                  Insert(@, name, Property(cell, <<>>))]

\* The installation of the resolved expression's cell: an existing property
\* gets the new cell as its expression and keeps its dependants, a new one is
\* inserted with no dependants.
install_expression(D, entity_id, name, cell) ==
    IF name \in DOMAIN D.entities[entity_id].properties
    THEN [D EXCEPT !.entities[entity_id].properties[name].expression = cell]
    ELSE [D EXCEPT !.entities[entity_id].properties =
                       Insert(@, name, Property(cell, <<>>))]

\* Document::build_property_cascades: [err, cascades].  stack holds the
\* properties of the calls in progress: a call on one of them repeats the
\* calls made since, without end, until the call stack is exhausted.
RECURSIVE build_property_cascades(_, _, _, _, _)
RECURSIVE CascadeLoop(_, _, _, _, _)
\* A faulty variant of CascadeLoop, which C2 tells from it: a dependant is
\* pushed after its own dependants, not before.
RECURSIVE CascadeLoopPostOrder(_, _, _, _, _)
PushedAfter(r, pr) ==
    IF r.err # Ok THEN r ELSE [err |-> Ok, cascades |-> Append(r.cascades, pr)]
CascadeLoopNext(D, dependants, i, r, stack) ==
    IF r.err # Ok THEN r
    ELSE CascadeLoopPostOrder(D, dependants, i + 1, r.cascades, stack)
CascadeLoopPostOrder(D, dependants, i, cascades, stack) ==
    IF i > Len(dependants) THEN [err |-> Ok, cascades |-> cascades]
    ELSE IF dependants[i].entity_id \notin DOMAIN D.entities
    THEN [err |-> Panic, cascades |-> cascades]
    ELSE CascadeLoopNext(D, dependants, i,
             PushedAfter(build_property_cascades(D, dependants[i].entity_id,
                             dependants[i].property_key, cascades, stack),
                         dependants[i]),
             stack)
CascadeLoop(D, dependants, i, cascades, stack) ==
    IF i > Len(dependants) THEN [err |-> Ok, cascades |-> cascades]
    ELSE LET pr == dependants[i]
             pushed == Append(cascades, pr)
         IN IF pr.entity_id \notin DOMAIN D.entities
            THEN [err |-> Panic, cascades |-> pushed]
            ELSE LET r == build_property_cascades(D, pr.entity_id,
                                                  pr.property_key, pushed, stack)
                 IN IF r.err # Ok THEN r
                    ELSE CascadeLoop(D, dependants, i + 1, r.cascades, stack)
build_property_cascades(D, entity_id, key, cascades, stack) ==
    IF PropRef(entity_id, key) \in stack
    THEN [err |-> StackOverflow, cascades |-> cascades]
    ELSE IF key \notin DOMAIN D.entities[entity_id].properties
    THEN [err |-> NoSuchProperty(key), cascades |-> cascades]
    ELSE CascadeLoop(D, D.entities[entity_id].properties[key].dependants, 1,
                     cascades, stack \cup {PropRef(entity_id, key)})

\* What set_property returns: the document after the call, its result, the
\* cascades it returns when the result is Ok, and whether the call got as far
\* as installing the expression.
SetResult(D, res, cascades, installed) ==
    [D |-> D, res |-> res, cascades |-> cascades, installed |-> installed]

\* set_property, its end: the cascades of the property just installed.
set_property_cascade(D, c) ==
    SetResult(D, c.err, IF c.err = Ok THEN c.cascades ELSE <<>>, TRUE)

\* set_property, the installation of the resolved expression in a new cell.
set_property_install(D, entity_id, name) ==
    set_property_cascade(D, build_property_cascades(D, entity_id, name,
                                      <<PropRef(entity_id, name)>>, {}))

\* set_property, the unwrap of the resolved expression.
set_property_resolved(resolved, entity_id, name) ==
    IF ~resolved.ok THEN SetResult(resolved.D, Panic, <<>>, FALSE)
    ELSE set_property_install(
             install_expression(new_cell(resolved.D, resolved.pon), entity_id,
                                name, Len(resolved.D.cells) + 1),
             entity_id, name)

\* set_property, after the loop over the dependencies.
set_property_linked(linked, entity_id, name, expression) ==
    IF linked.res # Ok THEN SetResult(linked.D, linked.res, <<>>, FALSE)
    ELSE set_property_resolved(
             resolve_pon_dependencies(linked.D, entity_id, expression),
             entity_id, name)

\* set_property, after the resolution of the dependencies.
set_property_deps(D, deps, entity_id, name, expression) ==
    IF ~deps.ok THEN SetResult(D, deps.err, <<>>, FALSE)
    ELSE set_property_linked(
             register_dependants(D, deps.refs, PropRef(entity_id, name)),
             entity_id, name, expression)

\* Document::set_property
set_property(D, entity_id, name, expression) ==
    IF entity_id \notin DOMAIN D.entities
    THEN SetResult(D, NoSuchEntity, <<>>, FALSE)
    ELSE set_property_deps(
             D, build_property_node_dependencies(D, entity_id, expression),
             entity_id, name, expression)

\* Document::get_property_value: [ok, pon] or [ok, err]
get_property_value(D, entity_id, name) ==
    IF entity_id \notin DOMAIN D.entities THEN Err(NoSuchEntity)
    ELSE IF name \notin DOMAIN D.entities[entity_id].properties
    THEN Err(NoSuchProperty(name))
    ELSE [ok |-> TRUE,
          pon |-> D.cells[D.entities[entity_id].properties[name].expression]]

\* Document::has_property
has_property(D, entity_id, name) ==
    IF entity_id \notin DOMAIN D.entities THEN Err(NoSuchEntity)
    ELSE [ok |-> TRUE, has |-> name \in DOMAIN D.entities[entity_id].properties]

\* Document::get_children
get_children(D, entity_id) ==
    IF entity_id \notin DOMAIN D.entities THEN Err(NoSuchEntity)
    ELSE [ok |-> TRUE, children |-> D.entities[entity_id].children_ids]

(***************************************************************************)
(* The calls of the document's interface.                                  *)
(*                                                                         *)
(* last is the latest call and what it returned.  source is a history of   *)
(* the calls: for each property whose expression a set_property call has   *)
(* installed, the expression argument of the latest such call, as given.   *)
(***************************************************************************)
\* The expressions given to set_property.
Exprs ==
    { Integer(5), Integer(9),
      Ref(This, "x"), Ref(This, "y"), Ref(Parent, "x"),
      Array(<<Ref(This, "x"), Ref(Parent, "x")>>) }

TypeNames == {"Entity"}

Returned(op, res, id, cascades, parent_id, name) ==
    [op |-> op, res |-> res, id |-> id, cascades |-> cascades,
     parent_id |-> parent_id, name |-> name, attributes |-> <<>>,
     results |-> <<>>]

\* Document::new, before any event of a load.
Init ==
    /\ id_counter = 0
    /\ root = 1
    /\ entities = <<>>
    /\ entity_ids_by_name = <<>>
    /\ cells = <<>>
    /\ source = <<>>
    /\ last = Returned("new", Ok, 0, <<>>, NoParent, None)
    /\ entity_stack = <<>>
    /\ frames = <<>>

\* the process has not died of a panic or of an exhausted stack
Alive == last.res \notin {Panic, StackOverflow}

SetDoc(D) ==
    /\ id_counter' = D.id_counter
    /\ entities' = D.entities
    /\ entity_ids_by_name' = D.entity_ids_by_name
    /\ cells' = D.cells

DepsWithin(D, n) ==
    \A e \in DOMAIN D.entities :
        \A key \in DOMAIN D.entities[e].properties :
            Len(D.entities[e].properties[key].dependants) <= n

\* the names given to append_entity
OptNames == {None} \cup {Some(n) : n \in Names}

Appended(r, parent_id, name) ==
    /\ SetDoc(r.D)
    /\ last' = Returned("append_entity", r.res, r.id, <<>>, parent_id, name)

\* a call of append_entity, out of at most n: under the sentinel, under an
\* entity there is or under an identifier that names none.
AppendEntityOf(n, names) ==
    /\ Alive
    /\ id_counter < n
    /\ \E parent_id \in (1..n) \cup {NoParent}, type_name \in TypeNames,
          name \in names :
          Appended(append_entity(Doc, parent_id, type_name, name), parent_id,
                   name)
    /\ UNCHANGED <<root, source, entity_stack, frames>>

\* a call of append_entity, of an entity without a name
AppendEntity == AppendEntityOf(MaxIds, {None})

\* a call of append_entity, of an entity with or without a name
AppendNamedEntity == AppendEntityOf(MaxTreeIds, OptNames)

\* the history of the expressions installed, after a call of set_property
Installed(src, r, entity_id, key, expression) ==
    IF r.installed THEN Insert(src, PropRef(entity_id, key), expression)
    ELSE src

WasSet(r, entity_id, key, expression) ==
    /\ DepsWithin(r.D, MaxDeps)
    /\ SetDoc(r.D)
    /\ source' = Installed(source, r, entity_id, key, expression)
    /\ last' = Returned("set_property", r.res, 0, r.cascades, NoParent, None)

\* a call of set_property
SetProperty ==
    /\ Alive
    /\ Len(cells) < MaxCells
    /\ \E entity_id \in 1..MaxIds, key \in Keys, expression \in Exprs :
          WasSet(set_property(Doc, entity_id, key, expression), entity_id, key,
                 expression)
    /\ UNCHANGED <<root, entity_stack, frames>>

\* Entities without names, and their properties.
Next == AppendEntity \/ SetProperty

Spec == Init /\ [][Next]_vars

\* Entities with names, without properties.
TreeNext == AppendNamedEntity

TreeSpec == Init /\ [][TreeNext]_vars

(***************************************************************************)
(* The loader, Document::from_string and append_from_event_reader.         *)
(*                                                                         *)
(* frames is the stack of the calls of append_from_event_reader in         *)
(* progress, one per event stream being read (the document's, then the     *)
(* streams of the files included); a frame records what its parser can     *)
(* still produce: the elements of the stream that are open, outermost      *)
(* first, each as the entity appended for it (IncludeElement for an        *)
(* Include element), and whether the stream's root element has started.    *)
(* entity_stack is the one open-entity stack the calls share.              *)
(***************************************************************************)
\* an attribute value pon_parse::body rejects
Unparseable == [k |-> "ParseError"]

\* The values of the attributes of a loaded element that hold a reference,
\* parsed, and the value that does not parse.
LoadExprs ==
    { Ref(This, "x"), Ref(Parent, "x"), Ref(Named("a"), "x"),
      TypedPon("something", Ref(This, "x")),
      Object([some |-> Ref(This, "x")]),
      Array(<<Ref(Parent, "x")>>),
      Unparseable }

Attribute(name, value) == [name |-> name, value |-> value]

\* The attributes of an element other than `name`, in document order: none,
\* x alone, y alone, x before y, y before x; x is a literal.
AttributeLists ==
    {<<>>, <<Attribute("x", Integer(5))>>}
    \cup {<<Attribute("y", v)>> : v \in LoadExprs}
    \cup {<<Attribute("x", Integer(5)), Attribute("y", v)>> : v \in LoadExprs}
    \cup {<<Attribute("y", v), Attribute("x", Integer(5))>> : v \in LoadExprs}

\* the names of the elements loaded
LoadNames == {None, Some("a")}

\* an open Include element: no entity was appended for it (identifiers
\* start at 1)
IncludeElement == 0

Frame(open, rooted) == [open |-> open, rooted |-> rooted]

Top(stack) == stack[Len(stack)]
Pop(stack) == IF stack = <<>> THEN stack ELSE SubSeq(stack, 1, Len(stack) - 1)

\* What the loader has done with an element: the document, the history
\* source, the open-entity stack, the entity's identifier, the results of
\* its set_property calls (which it drops) and Ok or Panic.
Loaded(D, src, stack, id, results, res) ==
    [D |-> D, source |-> src, stack |-> stack, id |-> id,
     results |-> results, res |-> res]

\* The loop of append_from_event_reader over the attributes of an element:
\* each value is parsed and given to set_property, whose result is dropped;
\* the entity is pushed after the last.
RECURSIVE load_attributes(_, _, _, _, _, _)
\* A faulty variant of attribute_set, which C5 tells from it: the result of
\* set_property is unwrapped, so that an error ends the load.
attribute_set_unwrap(r, src, stack, entity_id, attributes, results) ==
    IF r.res # Ok
    THEN Loaded(r.D, src, stack, entity_id, Append(results, r.res), Panic)
    ELSE load_attributes(r.D, src, stack, entity_id, Tail(attributes),
                         Append(results, r.res))
attribute_set(r, src, stack, entity_id, attributes, results) ==
    IF r.res \in {Panic, StackOverflow}
    THEN Loaded(r.D, src, stack, entity_id, Append(results, r.res), r.res)
    ELSE load_attributes(r.D, src, stack, entity_id, Tail(attributes),
                         Append(results, r.res))
attribute_parsed(r, src, stack, entity_id, attributes, results) ==
    attribute_set(r, Installed(src, r, entity_id, Head(attributes).name,
                               Head(attributes).value),
                  stack, entity_id, attributes, results)
load_attributes(D, src, stack, entity_id, attributes, results) ==
    IF attributes = <<>>
    THEN Loaded(D, src, Append(stack, entity_id), entity_id, results, Ok)
    ELSE IF Head(attributes).value = Unparseable
    THEN Loaded(D, src, stack, entity_id, results, Panic)
    ELSE attribute_parsed(
             set_property(D, entity_id, Head(attributes).name,
                          Head(attributes).value),
             src, stack, entity_id, attributes, results)

\* the unwrap of append_entity's result, then the attributes
entity_appended(a, src, stack, attributes) ==
    IF a.res # Ok THEN Loaded(a.D, src, stack, 0, <<>>, Panic)
    ELSE load_attributes(a.D, src, stack, a.id, attributes, <<>>)

\* XmlEvent::StartElement of an element other than Include: the entity is
\* appended under the top of the open-entity stack, its attributes are set
\* and it is pushed.
start_element(D, src, stack, type_name, name, attributes) ==
    entity_appended(
        append_entity(D, IF stack = <<>> THEN NoParent ELSE Top(stack),
                      type_name, name),
        src, stack, attributes)

Loading == frames # <<>>

\* the parser of the stream being read can produce a StartElement
CanStart == Top(frames).open # <<>> \/ ~Top(frames).rooted

\* the frames once the element el of the stream being read has opened
Opened(el) == [frames EXCEPT ![Len(frames)] = Frame(Append(@.open, el), TRUE)]

\* Document::from_string or from_file: the document's stream starts.
FromString ==
    /\ last.op = "new"
    /\ frames' = <<Frame(<<>>, FALSE)>>
    /\ last' = [last EXCEPT !.op = "from_string"]
    /\ UNCHANGED <<id_counter, root, entities, entity_ids_by_name, cells,
                   source, entity_stack>>

Started(r, name, attributes) ==
    /\ SetDoc(r.D)
    /\ source' = r.source
    /\ entity_stack' = r.stack
    /\ frames' = Opened(r.id)
    /\ last' = [op |-> "start_element", res |-> r.res, id |-> r.id,
                cascades |-> <<>>, parent_id |-> NoParent, name |-> name,
                attributes |-> attributes, results |-> r.results]

\* XmlEvent::StartElement, not Include
StartElement ==
    /\ Alive /\ Loading /\ CanStart
    /\ Len(Top(frames).open) < MaxOpen
    /\ id_counter < MaxLoadIds
    /\ \E type_name \in TypeNames, name \in LoadNames, attributes \in AttributeLists :
          Started(start_element(Doc, source, entity_stack, type_name, name,
                                attributes), name, attributes)
    /\ UNCHANGED root

\* XmlEvent::StartElement of Include with a file that exists: its stream is
\* read by a nested call on the same open-entity stack.
Include ==
    /\ Alive /\ Loading /\ CanStart
    /\ Len(Top(frames).open) < MaxOpen
    /\ Len(frames) <= MaxIncludeDepth
    /\ frames' = Append(Opened(IncludeElement), Frame(<<>>, FALSE))
    /\ last' = Returned("include", Ok, 0, <<>>, NoParent, None)
    /\ UNCHANGED <<id_counter, root, entities, entity_ids_by_name, cells,
                   source, entity_stack>>

\* XmlEvent::StartElement of Include without a file attribute, or with a
\* file that does not exist: panic!
IncludeMissing ==
    /\ Alive /\ Loading /\ CanStart
    /\ last' = Returned("include", Panic, 0, <<>>, NoParent, None)
    /\ UNCHANGED <<id_counter, root, entities, entity_ids_by_name, cells,
                   source, entity_stack, frames>>

\* XmlEvent::EndElement
EndElement ==
    /\ Alive /\ Loading
    /\ Top(frames).open # <<>>
    /\ entity_stack' = Pop(entity_stack)
    /\ frames' = [frames EXCEPT ![Len(frames)] = Frame(Pop(@.open), @.rooted)]
    /\ last' = Returned("end_element", Ok, 0, <<>>, NoParent, None)
    /\ UNCHANGED <<id_counter, root, entities, entity_ids_by_name, cells,
                   source>>

\* The stream ends after its root element: the call reading it returns.
EndOfStream ==
    /\ Alive /\ Loading
    /\ Top(frames).open = <<>> /\ Top(frames).rooted
    /\ frames' = Pop(frames)
    /\ last' = Returned("end_of_stream", Ok, 0, <<>>, NoParent, None)
    /\ UNCHANGED <<id_counter, root, entities, entity_ids_by_name, cells,
                   source, entity_stack>>

\* XmlEvent::Error: the loop over the stream breaks, the call returns.
ErrorEvent ==
    /\ Alive /\ Loading
    /\ frames' = Pop(frames)
    /\ last' = Returned("error", Ok, 0, <<>>, NoParent, None)
    /\ UNCHANGED <<id_counter, root, entities, entity_ids_by_name, cells,
                   source, entity_stack>>

LoadNext ==
    \/ FromString
    \/ StartElement
    \/ Include
    \/ IncludeMissing
    \/ EndElement
    \/ EndOfStream
    \/ ErrorEvent

LoadSpec == Init /\ [][LoadNext]_vars

(***************************************************************************)
(* The serializer, Document::to_xml, and the load of what it has written.  *)
(* The markup is the sequence of the events its elements make.             *)
(***************************************************************************)
\* Pon::to_string: the text of a value, in which a resolved reference is
\* written as the value it stands for.
to_string(cs, node) == [text |-> Value(cs, node)]

\* pon_parse::body of a text that to_string has written
body(text) == text.text

StartElementEvent(type_name, attributes) ==
    [e |-> "StartElement", type_name |-> type_name, attributes |-> attributes]
EndElementEvent == [e |-> "EndElement"]

\* the attributes entity_to_xml writes: one for each property, none for the
\* name
xml_attributes(D, entity_id) ==
    [i \in 1..Cardinality(DOMAIN D.entities[entity_id].properties) |->
        Attribute(SetToSeq(DOMAIN D.entities[entity_id].properties)[i],
                  to_string(D.cells,
                      D.cells[D.entities[entity_id].properties[
                          SetToSeq(DOMAIN D.entities[entity_id].properties)[i]]
                              .expression]))]

\* Document::entity_to_xml
RECURSIVE entity_to_xml(_, _)
RECURSIVE children_to_xml(_, _)
children_to_xml(D, ids) ==
    IF ids = <<>> THEN <<>>
    ELSE entity_to_xml(D, Head(ids)) \o children_to_xml(D, Tail(ids))
entity_to_xml(D, entity_id) ==
    <<StartElementEvent(D.entities[entity_id].type_name,
                        xml_attributes(D, entity_id))>>
        \o children_to_xml(D, D.entities[entity_id].children_ids)
        \o <<EndElementEvent>>

\* Document::to_xml, from the entity self.root
to_xml(D, root_id) == entity_to_xml(D, root_id)

\* the name attribute of an element, and its other attributes with their
\* values parsed
name_of(attributes) ==
    IF \E i \in DOMAIN attributes : attributes[i].name = "name"
    THEN Some(attributes[CHOOSE i \in DOMAIN attributes :
                             attributes[i].name = "name"].value)
    ELSE None
parsed(attributes) ==
    [i \in DOMAIN attributes |->
        Attribute(attributes[i].name, body(attributes[i].value))]

\* Document::append_from_event_reader over a whole stream of events
RECURSIVE read_events(_, _, _)
element_read(r, events) ==
    IF r.res # Ok THEN [D |-> r.D, res |-> r.res]
    ELSE read_events(r.D, r.stack, Tail(events))
read_events(D, stack, events) ==
    IF events = <<>> THEN [D |-> D, res |-> Ok]
    ELSE IF Head(events).e = "EndElement"
    THEN read_events(D, Pop(stack), Tail(events))
    ELSE element_read(
             start_element(D, <<>>, stack, Head(events).type_name,
                           name_of(Head(events).attributes),
                           parsed(SelectSeq(Head(events).attributes,
                                            LAMBDA a : a.name # "name"))),
             events)

\* Document::from_string
from_string(events) ==
    read_events([id_counter |-> 0, entities |-> <<>>,
                 entity_ids_by_name |-> <<>>, cells |-> <<>>], <<>>, events)

(***************************************************************************)
(* What the claims are stated with.                                        *)
(***************************************************************************)
Range(f) == {f[i] : i \in DOMAIN f}

\* what a caller of get_property_value reads
Read(D, entity_id, key) ==
    Value(D.cells, get_property_value(D, entity_id, key).pon)

Dependants(D, pr) ==
    D.entities[pr.entity_id].properties[pr.property_key].dependants

\* the property whose expression is the cell made last
NewestProperty(D) ==
    CHOOSE pr \in {PropRef(e, key) : e \in DOMAIN D.entities, key \in Keys} :
        /\ pr.property_key \in DOMAIN D.entities[pr.entity_id].properties
        /\ D.entities[pr.entity_id].properties[pr.property_key].expression
               = Len(D.cells)

IsLiteral(node) == node.k = "Integer"

\* C1: live substitution.  On an entity e whose property x was assigned a
\* literal and whose property y was then assigned reference(this, x), every
\* later successful set_property(e, x, v') makes get_property_value(e, y)
\* read what x reads, v'.
C1_LiveSubstitution ==
    [][(last'.op = "set_property" /\ last'.res = Ok) =>
          \A e \in DOMAIN entities : \A x \in Keys, y \in Keys :
              ( /\ x # y
                /\ last'.cascades[1] = PropRef(e, x)
                /\ PropRef(e, x) \in DOMAIN source
                /\ IsLiteral(source[PropRef(e, x)])
                /\ PropRef(e, y) \in DOMAIN source
                /\ source[PropRef(e, y)] = Ref(This, x) )
              => Read(Doc', e, y) = Read(Doc', e, x)]_vars

\* The depth-first pre-order of the dependant graph from the properties todo,
\* walked with an explicit stack.
RECURSIVE PreOrder(_, _, _)
PreOrder(D, todo, out) ==
    IF todo = <<>> THEN out
    ELSE PreOrder(D, Dependants(D, Head(todo)) \o Tail(todo),
                  Append(out, Head(todo)))

\* C2: the cascade a successful set_property(e, n, v) returns is the
\* depth-first pre-order of the dependant graph from (e, n): (e, n), then
\* each dependant in registration order, each followed by its own
\* dependants; with one dependant y, itself without dependants, it is
\* <<(e, n), y>>.
C2_CascadeIsPreOrder ==
    (last.op = "set_property" /\ last.res = Ok) =>
        /\ last.cascades[1] = NewestProperty(Doc)
        /\ last.cascades = PreOrder(Doc, <<NewestProperty(Doc)>>, <<>>)
        /\ \A y \in Range(Dependants(Doc, NewestProperty(Doc))) :
              ( /\ Dependants(Doc, NewestProperty(Doc)) = <<y>>
                /\ Dependants(Doc, y) = <<>> )
              => last.cascades = <<NewestProperty(Doc), y>>

\* C2's case: a cascade of a property with two dependants, the first of
\* which has a dependant of its own.
C2_Witness ==
    /\ last.op = "set_property" /\ last.res = Ok
    /\ Len(last.cascades) >= 3
    /\ Len(Dependants(Doc, last.cascades[1])) >= 1
    /\ Dependants(Doc, last.cascades[2]) # <<>>
    /\ last.cascades[3] \notin Range(Dependants(Doc, last.cascades[1]))

RefFree(node) == get_dependency_references(node) = <<>>

\* C3: set/get round trip.  After set_property(e, n, v) with a
\* reference-free v has installed v, get_property_value(e, n) returns v,
\* whether n had been assigned before or not.
C3_SetGetRoundTrip ==
    \A pr \in DOMAIN source :
        RefFree(source[pr]) =>
            get_property_value(Doc, pr.entity_id, pr.property_key)
                = [ok |-> TRUE, pon |-> source[pr]]

\* C3's case: a property that had dependants, so had been assigned, has just
\* been assigned a literal again.
C3_Witness ==
    /\ last.op = "set_property" /\ last.res = Ok
    /\ Len(last.cascades) >= 2
    /\ IsLiteral(source[last.cascades[1]])
    /\ Len(cells) >= 3

\* The expression node with every reference(this, x) and
\* reference(parent, x) replaced by what the property it names reads.
RECURSIVE Substituted(_, _, _)
Substituted(D, entity_id, node) ==
    CASE node.k = "DependencyReference" ->
            Read(D, IF node.ref.entity_path = This THEN entity_id
                    ELSE D.entities[entity_id].parent_id,
                 node.ref.property_key)
      [] node.k = "TypedPon" ->
            TypedPon(node.type_name, Substituted(D, entity_id, node.data))
      [] node.k = "Object" ->
            Object([f \in DOMAIN node.hm |-> Substituted(D, entity_id, node.hm[f])])
      [] node.k = "Array" ->
            Array([i \in DOMAIN node.arr |-> Substituted(D, entity_id, node.arr[i])])
      [] OTHER -> node

OnlyThisOrParent(node) ==
    \A r \in Range(get_dependency_references(node)) :
        r.entity_path \in {This, Parent}

\* C4: reference resolution on read.  In a loaded document (where no
\* property is assigned twice), a property assigned an expression whose
\* references are reference(this, x) or reference(parent, x), bare or inside
\* a mapping, a sequence or a typed wrapper, reads as that expression with
\* each reference replaced by the value of the property it names.
C4_ReferencesResolveOnRead ==
    \A pr \in DOMAIN source :
        OnlyThisOrParent(source[pr]) =>
            Read(Doc, pr.entity_id, pr.property_key)
                = Substituted(Doc, pr.entity_id, source[pr])

\* C4's case: a mapping around reference(this, x) and a sequence around
\* reference(parent, x) have been assigned and read as the value of x.
C4_Witness ==
    /\ PropRef(1, "y") \in DOMAIN source
    /\ source[PropRef(1, "y")] = Object([some |-> Ref(This, "x")])
    /\ Read(Doc, 1, "y") = Object([some |-> Integer(5)])
    /\ PropRef(2, "y") \in DOMAIN source
    /\ source[PropRef(2, "y")] = Array(<<Ref(Parent, "x")>>)
    /\ Read(Doc, 2, "y") = Array(<<Integer(5)>>)

\* node references a named entity the name index does not hold
NamesAbsentEntity(D, node) ==
    \E r \in Range(get_dependency_references(node)) :
        /\ r.entity_path.p = "Named"
        /\ r.entity_path.name \notin DOMAIN D.entity_ids_by_name

\* C5: the loader, on an element all of whose attributes parse, gives every
\* attribute to set_property and pushes the entity; for an attribute y whose
\* value references a named entity absent from the name index set_property
\* returns BadReference and there is no property y afterwards:
\* get_property_value returns NoSuchProperty(y).
C5_BadNamedReference ==
    ( /\ last.op = "start_element"
      /\ \A i \in DOMAIN last.attributes : last.attributes[i].value # Unparseable )
    => /\ last.res = Ok
       /\ Len(last.results) = Len(last.attributes)
       /\ entity_stack # <<>> /\ Top(entity_stack) = last.id
       /\ \A i \in DOMAIN last.attributes :
             NamesAbsentEntity(Doc, last.attributes[i].value) =>
                 /\ last.results[i] = BadReference
                 /\ get_property_value(Doc, last.id, last.attributes[i].name)
                        = Err(NoSuchProperty(last.attributes[i].name))

\* C5's case: the second element of a document has y = @a.x, no entity
\* being named a, before x = 5: the first is refused, the second is set.
C5_Witness ==
    /\ last.op = "start_element" /\ last.id = 2
    /\ last.attributes = <<Attribute("y", Ref(Named("a"), "x")),
                           Attribute("x", Integer(5))>>
    /\ last.results = <<BadReference, Ok>>
    /\ get_property_value(Doc, 2, "y") = Err(NoSuchProperty("y"))
    /\ get_property_value(Doc, 2, "x") = [ok |-> TRUE, pon |-> Integer(5)]

\* C6: no partial linkage.  A set_property call that returns BadReference
\* leaves the entities, with their properties and dependant lists, and the
\* expression cells as they were.
C6_NoPartialLinkage ==
    [][(last'.op = "set_property" /\ last'.res = BadReference) =>
          (entities' = entities /\ cells' = cells)]_vars

\* C7: forward reference.  set_property(e, n, reference(this, p)) where p
\* has never been assigned on e (p = n included) succeeds, creates p as a
\* Nil placeholder and records (e, n) among p's dependants.
C7_ForwardReference ==
    (Alive /\ Len(cells) < MaxCells) =>
        \A e \in DOMAIN entities : \A n \in Keys, p \in Keys :
            p \notin DOMAIN entities[e].properties =>
                /\ set_property(Doc, e, n, Ref(This, p)).res = Ok
                /\ HasProperty(set_property(Doc, e, n, Ref(This, p)).D, e, p)
                /\ PropRef(e, n) \in
                       Range(Dependants(set_property(Doc, e, n, Ref(This, p)).D,
                                        PropRef(e, p)))

\* C8: every successful append_entity returns an identifier greater than
\* every identifier returned before (the entities there are), which names
\* no entity yet, and the new entity is the last child of its parent.
C8_FreshIdsLastChild ==
    [][(id_counter' # id_counter /\ last'.res = Ok) =>
          /\ \A i \in DOMAIN entities : last'.id > i
          /\ last'.id > id_counter
          /\ DOMAIN entities' = DOMAIN entities \cup {last'.id}
          /\ entities'[last'.id].parent_id = last'.parent_id
          /\ last'.parent_id # NoParent =>
                entities'[last'.parent_id].children_ids =
                    Append(entities[last'.parent_id].children_ids, last'.id)]_vars

\* C8's case: after a failing append_entity, a second child is appended
\* under the root.
C8_Witness ==
    /\ last.op = "append_entity" /\ last.res = Ok /\ last.id = 3
    /\ DOMAIN entities = {1, 3}
    /\ entities[1].children_ids = <<3>>

\* C9: append_entity returns InvalidParent exactly when the parent is not
\* the sentinel and names no entity; the entity table, with the child
\* lists, and the name index are then unchanged.
C9_InvalidParent ==
    [][id_counter' # id_counter =>
          /\ last'.res \in {Ok, InvalidParent}
          /\ last'.res = InvalidParent <=>
                (last'.parent_id # NoParent
                 /\ last'.parent_id \notin DOMAIN entities)
          /\ last'.res = InvalidParent =>
                (entities' = entities
                 /\ entity_ids_by_name' = entity_ids_by_name)]_vars

\* C9's case: an append with a name and a parent that names no entity has
\* failed, in a document that holds entities, and the name is not indexed.
C9_Witness ==
    /\ last.op = "append_entity" /\ last.res = InvalidParent
    /\ last.name = Some("b")
    /\ "b" \notin DOMAIN entity_ids_by_name
    /\ DOMAIN entities # {}

Max(S) == CHOOSE m \in S : \A i \in S : i <= m

NamedIds(n) == {i \in DOMAIN entities : entities[i].name = Some(n)}

\* C10: name collision.  get_entity_by_name(n) and the path Named(n), from
\* any start, give the entity appended last among those named n (the one of
\* the greatest identifier), and None / BadReference when there is none.
C10_NameCollision ==
    \A n \in Names :
        IF NamedIds(n) = {}
        THEN /\ get_entity_by_name(Doc, n) = None
             /\ \A start \in (0..MaxTreeIds) \cup {NoParent} :
                   resolve_entity_path(Doc, start, Named(n)) = Err(BadReference)
        ELSE /\ get_entity_by_name(Doc, n) = Some(Max(NamedIds(n)))
             /\ \A start \in (0..MaxTreeIds) \cup {NoParent} :
                   resolve_entity_path(Doc, start, Named(n))
                       = OkId(Max(NamedIds(n)))

\* C10's case: two entities were appended with the name a, a third with
\* the name b.
C10_Witness ==
    /\ DOMAIN entities = {1, 2, 3}
    /\ entities[1].name = Some("a")
    /\ entities[2].name = Some("a")
    /\ entities[3].name = Some("b")
    /\ get_entity_by_name(Doc, "a") = Some(2)

\* The depth-first pre-order of the entity tree from the entities todo,
\* children in the order of the child lists, walked with an explicit stack.
RECURSIVE TreePreOrder(_, _, _)
TreePreOrder(D, todo, out) ==
    IF todo = <<>> THEN out
    ELSE TreePreOrder(D, D.entities[Head(todo)].children_ids \o Tail(todo),
                      Append(out, Head(todo)))

\* the entities named n of the subtree of e, in depth-first pre-order
NamedInSubtree(D, e, n) ==
    IF e \notin DOMAIN D.entities THEN <<>>
    ELSE SelectSeq(TreePreOrder(D, <<e>>, <<>>),
                   LAMBDA i : D.entities[i].name = Some(n))

FirstNamed(D, e, n) ==
    IF NamedInSubtree(D, e, n) = <<>> THEN Err(BadReference)
    ELSE OkId(NamedInSubtree(D, e, n)[1])

\* C11: search_children(e, n), and the path Search(This, n) from e, return
\* the first entity named n of the depth-first pre-order of the subtree of e
\* (e first, then its descendants in child order), and BadReference exactly
\* when the subtree holds no entity named n or e does not exist.
C11_SearchIsFirstPreOrder ==
    \A e \in (0..MaxTreeIds) \cup {NoParent} : \A n \in Names :
        /\ search_children(Doc, e, n) = FirstNamed(Doc, e, n)
        /\ resolve_entity_path(Doc, e, Search(This, n)) = FirstNamed(Doc, e, n)

\* C11's case: the root has the children 2 and 3, 3 is named a and so is 4,
\* the child of 2: the search from the root finds 4, the deeper and later
\* one, and the search from 3 finds 3.
C11_Witness ==
    /\ DOMAIN entities = {1, 2, 3, 4}
    /\ entities[1].children_ids = <<2, 3>>
    /\ entities[2].children_ids = <<4>>
    /\ entities[1].name = None /\ entities[2].name = None
    /\ entities[3].name = Some("a") /\ entities[4].name = Some("a")
    /\ search_children(Doc, 1, "a") = OkId(4)
    /\ search_children(Doc, 3, "a") = OkId(3)
    /\ search_children(Doc, 3, "b") = Err(BadReference)

IsPrefix(a, b) == Len(a) <= Len(b) /\ SubSeq(b, 1, Len(a)) = a

\* C12: a set_property call keeps every dependant list there was as a prefix
\* of what it is afterwards; a successful call on a property that existed
\* leaves that property's dependant list as it was, and the cascade it
\* returns holds every dependant of the list.
C12_DependantsKept ==
    [][last'.op = "set_property" =>
          /\ \A e \in DOMAIN entities : \A k \in DOMAIN entities[e].properties :
                /\ e \in DOMAIN entities'
                /\ k \in DOMAIN entities'[e].properties
                /\ IsPrefix(entities[e].properties[k].dependants,
                            entities'[e].properties[k].dependants)
          /\ ( /\ last'.res = Ok
               /\ HasProperty(Doc, last'.cascades[1].entity_id,
                              last'.cascades[1].property_key) )
             => /\ Dependants(Doc', last'.cascades[1])
                    = Dependants(Doc, last'.cascades[1])
                /\ Range(Dependants(Doc, last'.cascades[1]))
                       \subseteq Range(last'.cascades)]_vars

\* C12's case: x of the root, on which y of the root and x of its child
\* depend, has been assigned again: both are still its dependants, in the
\* order of their registration, and in the cascade.
C12_Witness ==
    /\ last.op = "set_property" /\ last.res = Ok
    /\ Len(cells) = 4
    /\ DOMAIN entities = {1, 2}
    /\ HasProperty(Doc, 1, "x")
    /\ Dependants(Doc, PropRef(1, "x")) = <<PropRef(1, "y"), PropRef(2, "x")>>
    /\ last.cascades = <<PropRef(1, "x"), PropRef(1, "y"), PropRef(2, "x")>>

\* the reference-free expressions given to set_property
Literals == {v \in Exprs : RefFree(v)}

\* C13: in every reachable state, set_property(e, n, v) on an entity there
\* is, with a reference-free v, returns Ok and a cascade that starts with
\* (e, n); it does not return NoSuchProperty.
C13_LiteralAlwaysSets ==
    (Alive /\ Len(cells) < MaxCells) =>
        \A e \in DOMAIN entities : \A n \in Keys : \A v \in Literals :
            /\ set_property(Doc, e, n, v).res = Ok
            /\ set_property(Doc, e, n, v).cascades # <<>>
            /\ set_property(Doc, e, n, v).cascades[1] = PropRef(e, n)

\* node holds, at any depth, a resolved reference to the cell c
RECURSIVE Embeds(_, _)
Embeds(node, c) ==
    CASE node.k = "ResolvedDependencyReference" -> node.cell = c
      [] node.k = "TypedPon" -> Embeds(node.data, c)
      [] node.k = "Object" -> \E f \in DOMAIN node.hm : Embeds(node.hm[f], c)
      [] node.k = "Array" -> \E i \in DOMAIN node.arr : Embeds(node.arr[i], c)
      [] OTHER -> FALSE

\* C14: in every reachable state, each (d, k) in the dependant list of a
\* property P names a property k there is on an entity d there is, whose
\* current expression embeds a resolved reference to P's current cell.
C14_DependantsAreLive ==
    \A e \in DOMAIN entities : \A p \in DOMAIN entities[e].properties :
        \A dk \in Range(entities[e].properties[p].dependants) :
            /\ HasProperty(Doc, dk.entity_id, dk.property_key)
            /\ Embeds(cells[entities[dk.entity_id].properties[dk.property_key].expression],
                      entities[e].properties[p].expression)

\* the dependants of a property, none for a property there is not
DependantsOrNone(D, pr) ==
    IF HasProperty(D, pr.entity_id, pr.property_key) THEN Dependants(D, pr)
    ELSE <<>>

\* the least set of properties that holds S and the dependants of its members
RECURSIVE Closure(_, _)
Closure(D, S) ==
    IF UNION {Range(DependantsOrNone(D, q)) : q \in S} \subseteq S THEN S
    ELSE Closure(D, S \cup UNION {Range(DependantsOrNone(D, q)) : q \in S})

\* the properties reached from pr by one dependant edge or more
Downstream(D, pr) == Closure(D, Range(DependantsOrNone(D, pr)))

\* a cycle of the dependant graph can be reached from pr
CycleReachable(D, pr) ==
    \E q \in {pr} \cup Downstream(D, pr) : q \in Downstream(D, q)

\* a call that has returned r for the property pr has recursed without end
\* exactly if it came to the cascade build with a cycle to reach
EndsUnlessCyclic(r, pr) ==
    /\ r.res = StackOverflow => (r.installed /\ CycleReachable(r.D, pr))
    /\ (r.installed /\ CycleReachable(r.D, pr)) => r.res = StackOverflow

\* C15: set_property(e, n, v) returns whenever no cycle of the dependant
\* graph can be reached from (e, n) once v is linked and installed, and its
\* cascade build recurses without end whenever one can.
C15_EndsUnlessCyclic ==
    (Alive /\ Len(cells) < MaxCells) =>
        \A e \in DOMAIN entities : \A n \in Keys : \A v \in Exprs :
            EndsUnlessCyclic(set_property(Doc, e, n, v), PropRef(e, n))

\* the positions of c in the child list of p
PositionsIn(p, c) ==
    {i \in DOMAIN entities[p].children_ids : entities[p].children_ids[i] = c}

\* C16: tree invariant.  An entity whose parent_id is not the sentinel has a
\* parent in the entity table, and is in its child list exactly once; every
\* child list is in strictly increasing order of identifier; every
\* identifier of a child list names an entity whose parent_id is the owner
\* of the list.
C16_TreeInvariant ==
    /\ \A c \in DOMAIN entities :
          entities[c].parent_id # NoParent =>
              /\ entities[c].parent_id \in DOMAIN entities
              /\ Cardinality(PositionsIn(entities[c].parent_id, c)) = 1
    /\ \A p \in DOMAIN entities :
          /\ \A i \in DOMAIN entities[p].children_ids :
                \A j \in DOMAIN entities[p].children_ids :
                    i < j => entities[p].children_ids[i] < entities[p].children_ids[j]
          /\ \A c \in Range(entities[p].children_ids) :
                /\ c \in DOMAIN entities
                /\ entities[c].parent_id = p

\* C16's case: a tree of three levels, made around an append that failed.
C16_Witness ==
    /\ id_counter = 4
    /\ DOMAIN entities = {1, 2, 4}
    /\ entities[1].children_ids = <<2>>
    /\ entities[2].children_ids = <<4>>
    /\ entities[4].parent_id = 2

\* C17: on an entity whose parent is the sentinel, resolve_entity_path of
\* Parent succeeds and returns the sentinel, and set_property with the
\* expression reference(parent, x) returns BadReference.
C17_ParentOfRoot ==
    \A e \in DOMAIN entities :
        entities[e].parent_id = NoParent =>
            /\ resolve_entity_path(Doc, e, Parent) = OkId(NoParent)
            /\ resolve_named_prop_ref(Doc, e, NamedPropRef(Parent, "x"))
                   = [ok |-> TRUE, ref |-> PropRef(NoParent, "x")]
            /\ (Alive /\ Len(cells) < MaxCells) =>
                  \A n \in Keys :
                      set_property(Doc, e, n, Ref(Parent, "x")).res = BadReference

\* C17's case: on a root whose x and y hold literals and have no dependants,
\* a set_property call has returned BadReference and linked nothing: of the
\* expressions given, the one that does is reference(parent, x).
C17_Witness ==
    /\ last.op = "set_property" /\ last.res = BadReference
    /\ DOMAIN entities = {1}
    /\ entities[1].parent_id = NoParent
    /\ DOMAIN entities[1].properties = {"x", "y"}
    /\ Dependants(Doc, PropRef(1, "x")) = <<>>
    /\ Dependants(Doc, PropRef(1, "y")) = <<>>
    /\ IsLiteral(cells[entities[1].properties["x"].expression])
    /\ IsLiteral(cells[entities[1].properties["y"].expression])

\* The entities of the elements that are open, outermost first, over the
\* streams being read (an Include element has none).
RECURSIVE OpenEntities(_)
OpenEntities(fs) ==
    IF fs = <<>> THEN <<>>
    ELSE SelectSeq(Head(fs).open, LAMBDA el : el # IncludeElement)
             \o OpenEntities(Tail(fs))

\* the entity of the innermost element still open, the sentinel when none is
InnermostOpen(fs) ==
    IF OpenEntities(fs) = <<>> THEN NoParent ELSE Top(OpenEntities(fs))

\* C18: loader stack discipline.  An element start that is not an Include
\* appends an entity whose parent is the entity of the innermost element
\* still open (the sentinel when none is), and pushes it; an Include appends
\* and pushes nothing; an element end pops one entry, the one its element
\* pushed (none at the end of an Include element, which pushed nothing);
\* when a balanced stream has ended, the open-entity stack holds the
\* entities of the elements still open in the streams that include it, as
\* it did when the stream began (nothing, for the document's own stream).
C18_StackDiscipline ==
    [][/\ (last'.op = "start_element" /\ last'.res = Ok) =>
              /\ entities'[last'.id].parent_id = InnermostOpen(frames)
              /\ entity_stack' = Append(entity_stack, last'.id)
       /\ (last'.op = "include" /\ last'.res = Ok) =>
              /\ entities' = entities
              /\ id_counter' = id_counter
              /\ entity_stack' = entity_stack
       /\ last'.op = "end_element" =>
              IF Top(Top(frames).open) = IncludeElement
              THEN entity_stack' = entity_stack
              ELSE /\ entity_stack # <<>>
                   /\ Top(entity_stack) = Top(Top(frames).open)
                   /\ entity_stack' = Pop(entity_stack)
       /\ last'.op = "end_of_stream" =>
              entity_stack' = OpenEntities(frames')]_vars

\* The subtree of e1 in D1 and the subtree of e2 in D2 are the same but for
\* the identifiers: type tags, names, property keys with the values read,
\* and children in order.
RECURSIVE Equivalent(_, _, _, _)
Equivalent(D1, e1, D2, e2) ==
    /\ D1.entities[e1].type_name = D2.entities[e2].type_name
    /\ D1.entities[e1].name = D2.entities[e2].name
    /\ DOMAIN D1.entities[e1].properties = DOMAIN D2.entities[e2].properties
    /\ \A k \in DOMAIN D1.entities[e1].properties :
          Read(D1, e1, k) = Read(D2, e2, k)
    /\ Len(D1.entities[e1].children_ids) = Len(D2.entities[e2].children_ids)
    /\ \A i \in DOMAIN D1.entities[e1].children_ids :
          Equivalent(D1, D1.entities[e1].children_ids[i],
                     D2, D2.entities[e2].children_ids[i])

\* the load of a well-formed document has come to the end of its stream and
\* has made the root entity
LoadedDocument ==
    /\ frames = <<>> /\ last.op = "end_of_stream"
    /\ root \in DOMAIN entities

\* C19: load/serialize round trip.  The document loaded from what to_xml
\* writes of a loaded document loads without error and has, from its root,
\* the same entity tree (type tags, child order), the same entity names and
\* the same property keys with the same values.
C19_RoundTrip ==
    LoadedDocument =>
        /\ from_string(to_xml(Doc, root)).res = Ok
        /\ root \in DOMAIN from_string(to_xml(Doc, root)).D.entities
        /\ Equivalent(Doc, root, from_string(to_xml(Doc, root)).D, root)

\* C20: the cascade a successful set_property returns is an ordered set: no
\* PropRef occurs in it more than once.
C20_CascadeHasNoDuplicates ==
    (last.op = "set_property" /\ last.res = Ok) =>
        \A i \in DOMAIN last.cascades : \A j \in DOMAIN last.cascades :
            last.cascades[i] = last.cascades[j] => i = j

\* expressions whose references lie under typed wrappers, mappings and
\* sequences, at depth one and two
DeepExprs ==
    { TypedPon("t", Ref(This, "x")), TypedPon("t", Ref(Parent, "y")),
      Object([f \in {"x"} |-> Ref(Parent, "x")]),
      Array(<<Integer(5), Array(<<Ref(This, "y")>>)>>),
      Array(<<TypedPon("t", Ref(Parent, "x")), Ref(This, "x")>>) }

\* set_property(entity_id, name, expression) as far as the loop over its
\* dependencies: the document the loop leaves and Ok, or the error the call
\* returns before or in the loop.
Linked(D, entity_id, name, expression) ==
    IF entity_id \notin DOMAIN D.entities THEN [D |-> D, res |-> NoSuchEntity]
    ELSE IF ~build_property_node_dependencies(D, entity_id, expression).ok
    THEN [D |-> D,
          res |-> build_property_node_dependencies(D, entity_id, expression).err]
    ELSE register_dependants(
             D, build_property_node_dependencies(D, entity_id, expression).refs,
             PropRef(entity_id, name))

\* C21: in every reachable state, (1) every entity identifier in a
\* dependant list names an entity there is, and (2) for every call
\* set_property(e, n, v) made from it whose dependencies resolve and are all
\* linked, the substitution of the references of v returns no error, and the
\* call does not panic: neither the unwrap of the substitution's result nor
\* the unwrap of a dependant's entity in the cascade build meets a failure.
C21_UnwrapsNeverFail ==
    /\ \A e \in DOMAIN entities : \A key \in DOMAIN entities[e].properties :
           \A pr \in Range(entities[e].properties[key].dependants) :
               pr.entity_id \in DOMAIN entities
    /\ (Alive /\ Len(cells) < MaxCells) =>
           \A e \in 1..MaxIds : \A n \in Keys : \A v \in Exprs \cup DeepExprs :
               LET linked == Linked(Doc, e, n, v)
               IN linked.res = Ok =>
                      /\ resolve_pon_dependencies(linked.D, e, v).ok
                      /\ set_property(Doc, e, n, v).res # Panic

\* a successful call has installed an expression that holds a resolved
\* reference, on a property with a dependant, which the cascade build has
\* walked
C21_Witness ==
    /\ last.op = "set_property"
    /\ last.res = Ok
    /\ Len(last.cascades) >= 2
    /\ cells # <<>>
    /\ HasProperty(Doc, last.cascades[1].entity_id, last.cascades[1].property_key)
    /\ entities[last.cascades[1].entity_id]
           .properties[last.cascades[1].property_key].expression = Len(cells)
    /\ \E c \in DOMAIN cells : Embeds(cells[Len(cells)], c)

====
